---- MODULE Spec2Model ----
(***************************************************************************)
(* A model of the scrollable container widget of xilem                     *)
(* (src/src/widget/scroll_view.rs): the ScrollView's offset, the geometry  *)
(* cached by the Pods around it, and the event, layout, paint and other     *)
(* operations of its Widget implementation.                                *)
(*                                                                         *)
(* f64 quantities (sizes, positions, precise wheel deltas, the offset) are *)
(* modelled as integers drawn from small sets; f64::INFINITY is modelled   *)
(* as a value above every finite coordinate of the model.  The line count  *)
(* of a wheel event is an isize: it keeps a width, scaled down to          *)
(* IsizeBits bits, because the code negates it, and ISIZE_MIN stands for   *)
(* isize::MIN.  The negation of isize::MIN panics in a build with overflow *)
(* checks and wraps in a build without; overflow_checks is the build.      *)
(***************************************************************************)
EXTENDS Integers, Sequences, FiniteSets, TLC

VARIABLES offset, child_size, own_size, overflow_checks, crashed, call,
          shell, inner_offset, leaf_size, update_ctx

vars == <<offset, child_size, own_size, overflow_checks, crashed, call,
          shell, inner_offset, leaf_size, update_ctx>>

(***************************************************************************)
(* Bounds and program constants                                            *)
(***************************************************************************)

\* width in bits of the modelled isize (the line count of ScrollDelta::Lines)
IsizeBits == 3

\* the largest number of accessibility nodes the child's subtree pushes
MaxChildNodes == 2

LINE_HEIGHT == 53

ISIZE_MIN == -(2 ^ (IsizeBits - 1))

ISIZE_MAX == 2 ^ (IsizeBits - 1) - 1

\* f64::INFINITY: above every finite coordinate of the model
INFINITY == 1000000

(***************************************************************************)
(* f64 helpers                                                             *)
(***************************************************************************)

min(a, b) == IF b < a THEN b ELSE a

max(a, b) == IF b > a THEN b ELSE a

clamp(v, lo, hi) == IF v < lo THEN lo ELSE IF v > hi THEN hi ELSE v

Size(w, h) == [width |-> w, height |-> h]

Point(px, py) == [x |-> px, y |-> py]

BoxConstraints(mn, mx) == [min |-> mn, max |-> mx]

(***************************************************************************)
(* Inputs                                                                  *)
(***************************************************************************)

Positions == {Point(10, 40)}

PreciseDeltas == {[tag |-> "Precise", x |-> 0, y |-> dy] : dy \in {-120, 120}}

LinesDeltas == {[tag |-> "Lines", x |-> 0, y |-> n] : n \in ISIZE_MIN .. ISIZE_MAX}

NoDelta == [tag |-> "None", x |-> 0, y |-> 0]

\* a sideways precise scroll: no vertical movement
SidewaysDelta == [tag |-> "Precise", x |-> 30, y |-> 0]

WheelDeltas == {NoDelta, SidewaysDelta} \cup PreciseDeltas \cup LinesDeltas

MouseKinds == {"MouseDown", "MouseUp", "MouseMove", "MouseWheel"}

MouseEvents ==
    {[kind |-> k, pos |-> p, button |-> "Left", wheel_delta |-> NoDelta] :
        k \in MouseKinds \ {"MouseWheel"}, p \in Positions}
    \cup
    {[kind |-> "MouseWheel", pos |-> p, button |-> "None", wheel_delta |-> d] :
        p \in Positions, d \in WheelDeltas}
    \cup
    \* a button press whose MouseEvent still carries a wheel delta
    {[kind |-> "MouseDown", pos |-> p, button |-> "Left",
      wheel_delta |-> [tag |-> "Precise", x |-> 0, y |-> -120]] : p \in Positions}

OtherEvents == {[kind |-> "MouseLeft"],
                [kind |-> "TargetedAccessibilityAction", target |-> "child"]}

Events == MouseEvents \cup OtherEvents

\* incoming constraint boxes, min <= max componentwise
Constraints ==
    {BoxConstraints(Size(mnw, mnh), Size(mxw, mxh)) :
        mnw \in {0, 100}, mnh \in {0, 200},
        mxw \in {100}, mxh \in {200, INFINITY}}

\* the sizes the child's layout can return
ChildSizes ==
    {Size(w, h) : w \in {50, 300}, h \in {0, 150}} \cup {Size(50, 500)}

\* the structural notifications the container passes through
LifeCycles == {"WidgetAdded", "TreeUpdate"}

Axes == {"Horizontal", "Vertical"}

\* constraint boxes of intrinsic-size queries; a negative minimum is the
\* "unbounded" sentinel
IntrinsicConstraints ==
    {BoxConstraints(mn, Size(100, 200)) :
        mn \in {Size(-1, 0), Size(0, -1), Size(0, 0), Size(100, 200)}}

\* the intrinsic lengths the child can answer
ChildLengths == {50, 300}

\* the sub-scenes the child can paint
Fragments == {"blank", "rows"}

\* the scene handed to paint: empty, or inside a layer of an ancestor
Scenes == {<<>>, <<[op |-> "push_layer",
                    clip |-> [x0 |-> 0, y0 |-> 0, x1 |-> 1024, y1 |-> 768]]>>}

CHILD_ID == "child_id"

ChildNode(i) == [role |-> "Child", children |-> <<>>, n |-> i]

\* the node lists the child's subtree can push, in order
ChildNodeLists == {[i \in 1 .. n |-> ChildNode(i)] : n \in 0 .. MaxChildNodes}

(***************************************************************************)
(* MainState (the windowing shell)                                         *)
(***************************************************************************)

\* the largest number of frames rendered
MaxFrames == 3

ScaleFactors == {1, 2}

\* line counts as winit reports them (f32), some beyond the isize range
RawLines == {ISIZE_MIN - 1, -1, 0, 3}

WindowEvents ==
    {[kind |-> "CloseRequested"], [kind |-> "RedrawRequested"],
     [kind |-> "CursorLeft"]}
    \cup {[kind |-> "ScaleFactorChanged", scale_factor |-> f] : f \in ScaleFactors}
    \cup {[kind |-> "Resized", width |-> 1024, height |-> 768]}
    \cup {[kind |-> "ModifiersChanged", modifiers |-> m] : m \in {"none", "shift"}}
    \cup {[kind |-> "CursorMoved", position |-> Point(20, 80)]}
    \cup {[kind |-> "MouseInput", state |-> s, button |-> "Left"] :
             s \in {"Pressed", "Released"}}
    \cup {[kind |-> "MouseWheel", delta |-> [tag |-> "LineDelta", x |-> 0, y |-> n]] :
             n \in RawLines}
    \cup {[kind |-> "MouseWheel", delta |-> [tag |-> "PixelDelta", x |-> 0, y |-> -240]]}

UserEvents ==
    {[kind |-> "InitialTreeRequested"], [kind |-> "AccessibilityDeactivated"],
     [kind |-> "ActionRequested", request |-> "child"]}

\* MainState::new
new_shell ==
    [scale_factor |-> 1,
     exited |-> FALSE,
     counter |-> 0,
     accesskit_connected |-> FALSE,
     redraw_requested |-> FALSE,
     main_pointer |-> [pos |-> Point(0, 0), mods |-> "none"],
     occurrence |-> [kind |-> "none"],
     effects |-> <<>>]

(***************************************************************************)
(* ScrollView::new                                                         *)
(***************************************************************************)

\* the largest TypeId of a property other than CornerRadius
MaxPropertyTypes == 5

\* TypeId: one opaque value per property type
TypeIds == 0 .. MaxPropertyTypes

\* TypeId::of::<Self>() inside impl CornerRadius
TypeId_of_Self == 0

\* UpdateCtx: the pending requests of the widget the property belongs to
UpdateCtxs ==
    [needs_layout : BOOLEAN, needs_paint : BOOLEAN,
     needs_compose : BOOLEAN, needs_accessibility : BOOLEAN]

no_requests ==
    [needs_layout |-> FALSE, needs_paint |-> FALSE,
     needs_compose |-> FALSE, needs_accessibility |-> FALSE]

Init ==
    /\ update_ctx = no_requests
    /\ offset = 0
    /\ child_size = Size(0, 0)
    /\ own_size = Size(0, 0)
    /\ overflow_checks \in BOOLEAN
    /\ crashed = FALSE
    /\ call = [op |-> "new"]
    /\ shell = new_shell
    /\ inner_offset = 0
    /\ leaf_size = Size(0, 0)

(***************************************************************************)
(* ScrollView::event                                                       *)
(***************************************************************************)

\* a slip: the offset is subtracted from the position
translate_subtracting(event, off) ==
    IF event.kind \in MouseKinds
    THEN [event EXCEPT !.pos = Point(event.pos.x, event.pos.y - off)]
    ELSE event

\* a slip: the fall-through arm forwards a MouseLeft
translate_others_as_left(event, off) ==
    IF event.kind \in MouseKinds
    THEN [event EXCEPT !.pos = Point(event.pos.x + 0, event.pos.y + off)]
    ELSE [kind |-> "MouseLeft"]

\* the match that builds child_event: pos += Vec2::new(0.0, self.offset)
translate(event, off) ==
    IF event.kind \in MouseKinds
    THEN [event EXCEPT !.pos = Point(event.pos.x + 0, event.pos.y + off)]
    ELSE event

\* -y on an isize in a build without overflow checks
wrapping_neg(y) == IF y = ISIZE_MIN THEN ISIZE_MIN ELSE -y

\* -y on an isize panics in a build with overflow checks
neg_overflows(wheel_delta) ==
    wheel_delta.tag = "Lines" /\ wheel_delta.y = ISIZE_MIN

\* a slip: the precise delta is not negated
y_delta_not_negated(wheel_delta) ==
    CASE wheel_delta.tag = "Precise" -> wheel_delta.y
      [] wheel_delta.tag = "Lines" -> wrapping_neg(wheel_delta.y) * LINE_HEIGHT
      [] wheel_delta.tag = "None" -> 0

\* let y_delta = match mouse_event.wheel_delta { ... }
\* a slip: a wheel event without a delta scrolls one line down
y_delta_default_line(wheel_delta) ==
    CASE wheel_delta.tag = "Precise" -> -wheel_delta.y
      [] wheel_delta.tag = "Lines" -> wrapping_neg(wheel_delta.y) * LINE_HEIGHT
      [] wheel_delta.tag = "None" -> LINE_HEIGHT

y_delta(wheel_delta) ==
    CASE wheel_delta.tag = "Precise" -> -wheel_delta.y
      [] wheel_delta.tag = "Lines" -> wrapping_neg(wheel_delta.y) * LINE_HEIGHT
      [] wheel_delta.tag = "None" -> 0

\* a slip: the handled flag is not consulted
scrolls_ignoring_handled(is_handled, ev) == ev.kind = "MouseWheel"

\* a slip: every mouse event that carries a wheel delta scrolls
scrolls_on_any_mouse_event(is_handled, ev) == ~is_handled /\ ev.kind \in MouseKinds

\* if !cx.is_handled() { if let Event::MouseWheel(mouse_event) = event {
scrolls(is_handled, ev) == ~is_handled /\ ev.kind = "MouseWheel"

event_max_offset(child_height, own_height) == max(child_height - own_height, 0)

\* a slip: the new offset is only kept above 0
new_offset_no_upper(off, delta, max_offset) == max(off + delta, 0)

new_offset(off, delta, max_offset) == clamp(off + delta, 0, max_offset)

\* a slip: every wheel event that reaches the container is consumed
commits_always(new, off) == TRUE

\* if new_offset != self.offset {
commits(new, off) == new # off

\* a slip: the child is called after the scroll, with the offset it produced
translation_offset_after_scroll(off_before, off_after) == off_after

\* child_event is built and self.child.event called before the scroll block,
\* so the translation reads self.offset as it was on entry
translation_offset(off_before, off_after) == off_before

event(ev, handled_in, child_handles) ==
    LET handled_child == handled_in \/ child_handles
        wheel == scrolls(handled_child, ev)
        panics == wheel /\ overflow_checks /\ neg_overflows(ev.wheel_delta)
        max_offset == event_max_offset(child_size.height, own_size.height)
        new == new_offset(offset, y_delta(ev.wheel_delta), max_offset)
        changed == wheel /\ ~panics /\ commits(new, offset)
        offset_after == IF changed THEN new ELSE offset
        child_event == translate(ev, translation_offset(offset, offset_after))
    IN  /\ ~crashed
        /\ offset' = offset_after
        /\ crashed' = panics
        /\ call' = [op |-> "event",
                    event |-> ev,
                    event_after |-> ev,
                    child_event |-> child_event,
                    child_calls |-> 1,
                    offset_before |-> offset,
                    handled_in |-> handled_in,
                    handled_child |-> handled_child,
                    handled |-> (handled_child \/ changed),
                    paint_requested |-> changed,
                    panicked |-> panics]
        /\ UNCHANGED <<shell, inner_offset, leaf_size, child_size, own_size, update_ctx, overflow_checks>>

(***************************************************************************)
(* ScrollView::lifecycle, ScrollView::update                               *)
(***************************************************************************)

lifecycle(lc) ==
    /\ ~crashed
    /\ call' = [op |-> "lifecycle",
                event |-> lc,
                child_event |-> lc,
                child_calls |-> 1,
                offset_before |-> offset,
                paint_requested |-> FALSE]
    /\ UNCHANGED <<shell, inner_offset, leaf_size, offset, child_size, own_size, update_ctx, overflow_checks, crashed>>

update ==
    /\ ~crashed
    /\ call' = [op |-> "update",
                child_calls |-> 1,
                offset_before |-> offset,
                paint_requested |-> FALSE]
    /\ UNCHANGED <<shell, inner_offset, leaf_size, offset, child_size, own_size, update_ctx, overflow_checks, crashed>>

(***************************************************************************)
(* ScrollView::compute_max_intrinsic                                       *)
(***************************************************************************)

axis_min(axis, bc) ==
    IF axis = "Horizontal" THEN bc.min.width ELSE bc.min.height

axis_max(axis, bc) ==
    IF axis = "Horizontal" THEN bc.max.width ELSE bc.max.height

\* BoxConstraints::unbound_max_height
unbound_max_height(bc) == BoxConstraints(bc.min, Size(bc.max.width, INFINITY))

\* a slip: the width's minimum is tested on both axes
is_sign_negative_width(axis, bc) == bc.min.width < 0

\* if bc.min().width.is_sign_negative() / bc.min().height.is_sign_negative()
is_sign_negative(axis, bc) == axis_min(axis, bc) < 0

\* length.min(bc.max().width).max(bc.min().width), and the same on height
intrinsic_clamped(length, axis, bc) ==
    max(min(length, axis_max(axis, bc)), axis_min(axis, bc))

compute_max_intrinsic(axis, bc, length) ==
    LET short == is_sign_negative(axis, bc)
    IN  /\ ~crashed
        /\ call' = [op |-> "compute_max_intrinsic",
                    axis |-> axis,
                    bc |-> bc,
                    child_queries |-> IF short THEN <<>>
                                      ELSE <<[axis |-> axis,
                                              bc |-> unbound_max_height(bc),
                                              length |-> length]>>,
                    child_calls |-> IF short THEN 0 ELSE 1,
                    result |-> IF short THEN 0
                               ELSE intrinsic_clamped(length, axis, bc),
                    offset_before |-> offset,
                    paint_requested |-> FALSE]
        /\ UNCHANGED <<shell, inner_offset, leaf_size, offset, child_size, own_size, update_ctx, overflow_checks, crashed>>

(***************************************************************************)
(* ScrollView::layout                                                      *)
(***************************************************************************)

\* a slip: the child gets the incoming maximum height (bc.loosen())
child_bc_loosened(bc) == BoxConstraints(Size(0, 0), bc.max)

\* BoxConstraints::new(Size::new(0.0, 0.0), Size::new(bc.max().width, f64::INFINITY))
child_bc(bc) == BoxConstraints(Size(0, 0), Size(bc.max.width, INFINITY))

\* a slip: the child size is constrained into [min, max]
layout_size_constrained(cs, bc) ==
    Size(max(min(cs.width, bc.max.width), bc.min.width),
         max(min(cs.height, bc.max.height), bc.min.height))

\* a slip: the height is not capped
layout_size_uncapped(cs, bc) == Size(min(cs.width, bc.max.width), cs.height)

layout_size(cs, bc) ==
    Size(min(cs.width, bc.max.width), min(cs.height, bc.max.height))

\* a slip: the viewport height is taken from the previous layout
layout_max_offset_stale(cs, size) == max(cs.height - own_size.height, 0)

layout_max_offset(cs, size) == max(cs.height - size.height, 0)

\* a slip: the offset is not re-clamped
layout_offset_kept(off, max_offset) == off

\* a slip: the offset is always set to the maximum
layout_offset_to_max(off, max_offset) == max_offset

layout_offset(off, max_offset) == IF max_offset < off THEN max_offset ELSE off

\* a slip: the repaint is requested only when the layout changed something
request_paint_if_changed(size_changed, offset_changed) ==
    size_changed \/ offset_changed

\* cx.request_paint() on entry
request_paint(size_changed, offset_changed) == TRUE

layout(bc, cs) ==
    LET size == layout_size(cs, bc)
        max_offset == layout_max_offset(cs, size)
    IN  /\ ~crashed
        /\ child_size' = cs
        /\ offset' = layout_offset(offset, max_offset)
        /\ own_size' = size
        /\ call' = [op |-> "layout",
                    bc |-> bc,
                    cbc |-> child_bc(bc),
                    child_calls |-> 1,
                    child_size |-> cs,
                    size |-> size,
                    offset_before |-> offset,
                    repeated |-> (/\ call.op = "layout"
                                  /\ call.bc = bc
                                  /\ call.child_size = cs),
                    paint_requested |->
                        request_paint(size # own_size,
                                      layout_offset(offset, max_offset) # offset)]
        /\ UNCHANGED <<shell, inner_offset, leaf_size, update_ctx, overflow_checks, crashed>>

(***************************************************************************)
(* ScrollView::accessibility                                               *)
(***************************************************************************)

container_node ==
    [role |-> "GenericContainer", children |-> <<CHILD_ID>>, n |-> 0]

\* a slip: the node is pushed whether or not it was requested
pushed_always(is_requested) == <<container_node>>

\* if cx.is_requested() { ... cx.push_node(builder) }
pushed(is_requested) == IF is_requested THEN <<container_node>> ELSE <<>>

accessibility(is_requested, child_nodes) ==
    /\ ~crashed
    /\ call' = [op |-> "accessibility",
                is_requested |-> is_requested,
                child_nodes |-> child_nodes,
                child_calls |-> 1,
                nodes |-> child_nodes \o pushed(is_requested),
                offset_before |-> offset]
    /\ UNCHANGED <<shell, inner_offset, leaf_size, offset, child_size, own_size, update_ctx, overflow_checks, crashed>>

(***************************************************************************)
(* ScrollView::paint                                                       *)
(***************************************************************************)

\* Size::to_rect: the rectangle from the origin to (width, height)
to_rect(size) == [x0 |-> 0, y0 |-> 0, x1 |-> size.width, y1 |-> size.height]

push_layer(clip) == [op |-> "push_layer", clip |-> clip]

pop_layer == [op |-> "pop_layer"]

append(fragment, transform) ==
    [op |-> "append", fragment |-> fragment, translate |-> transform]

\* a slip: the content is moved down by the offset
paint_translate_down(off) == Point(0, off)

\* Affine::translate((0.0, -self.offset))
paint_translate(off) == Point(0, 0 - off)

paint(scene, fragment) ==
    /\ ~crashed
    /\ call' = [op |-> "paint",
                scene_before |-> scene,
                fragment |-> fragment,
                child_calls |-> 1,
                scene |-> scene \o <<push_layer(to_rect(own_size)),
                                     append(fragment, paint_translate(offset)),
                                     pop_layer>>,
                offset_before |-> offset,
                paint_requested |-> FALSE]
    /\ UNCHANGED <<shell, inner_offset, leaf_size, offset, child_size, own_size, update_ctx, overflow_checks, crashed>>

(***************************************************************************)
(* The specification                                                       *)
(***************************************************************************)

Next ==
    \/ \E ev \in Events, handled_in \in BOOLEAN, child_handles \in BOOLEAN :
          event(ev, handled_in, child_handles)
    \/ \E bc \in Constraints, cs \in ChildSizes : layout(bc, cs)
    \/ \E is_requested \in BOOLEAN, child_nodes \in ChildNodeLists :
          accessibility(is_requested, child_nodes)
    \/ \E lc \in LifeCycles : lifecycle(lc)
    \/ update
    \/ \E scene \in Scenes, fragment \in Fragments : paint(scene, fragment)
    \/ \E axis \in Axes, bc \in IntrinsicConstraints, length \in ChildLengths :
          compute_max_intrinsic(axis, bc, length)

Spec == Init /\ [][Next]_vars

(***************************************************************************)
(* Degenerate geometry: layouts and events over short children, with a     *)
(* constraint box whose maximum height is 0 among the incoming boxes       *)
(***************************************************************************)

ZeroMaxConstraints ==
    Constraints \cup {BoxConstraints(Size(0, 0), Size(100, 0))}

ShortChildSizes == {cs \in ChildSizes : cs.height <= 150}

NextDegenerate ==
    \/ \E ev \in Events, handled_in \in BOOLEAN, child_handles \in BOOLEAN :
          event(ev, handled_in, child_handles)
    \/ \E bc \in ZeroMaxConstraints, cs \in ShortChildSizes : layout(bc, cs)

SpecDegenerate == Init /\ [][NextDegenerate]_vars

(***************************************************************************)
(* MainState::window_event, MainState::user_event                          *)
(***************************************************************************)

\* self.app.window_event(event)
dispatch(ev) == [call |-> "app.window_event", event |-> ev]

\* self.window.request_redraw()
request_redraw == [call |-> "window.request_redraw"]

\* the MouseEvent the PointerCrusher returns for its current state
pointer_event(kind, main_pointer, button, wheel_delta) ==
    [kind |-> kind, pos |-> main_pointer.pos, button |-> button,
     wheel_delta |-> wheel_delta]

\* y.trunc() as isize: the conversion saturates
trunc_as_isize(y) == clamp(y, ISIZE_MIN, ISIZE_MAX)

\* the match on MouseScrollDelta in pointer_wheel
scroll_delta(delta, scale_factor) ==
    IF delta.tag = "LineDelta"
    THEN [tag |-> "Lines", x |-> trunc_as_isize(delta.x), y |-> trunc_as_isize(delta.y)]
    ELSE [tag |-> "Precise", x |-> delta.x \div scale_factor,
          y |-> delta.y \div scale_factor]

pointer_move(main_pointer) ==
    <<dispatch(pointer_event("MouseMove", main_pointer, "None", NoDelta)),
      request_redraw>>

pointer_down(main_pointer, button) ==
    <<dispatch(pointer_event("MouseDown", main_pointer, button, NoDelta)),
      request_redraw>>

pointer_up(main_pointer, button) ==
    <<dispatch(pointer_event("MouseUp", main_pointer, button, NoDelta)),
      request_redraw>>

\* a slip: the app is not told that the pointer left
pointer_leave_silent == <<request_redraw>>

pointer_leave == <<dispatch([kind |-> "MouseLeft"]), request_redraw>>

pointer_wheel(main_pointer, delta, scale_factor) ==
    <<dispatch(pointer_event("MouseWheel", main_pointer, "None",
                             scroll_delta(delta, scale_factor))),
      request_redraw>>

\* MainState::mods, after main_pointer.mods(mods)
mods(main_pointer) == <<request_redraw>>

\* the state of the PointerCrusher after the occurrence
crushed(main_pointer, we, scale_factor) ==
    CASE we.kind = "CursorMoved" ->
            [main_pointer EXCEPT !.pos = Point(we.position.x \div scale_factor,
                                               we.position.y \div scale_factor)]
      [] we.kind = "ModifiersChanged" ->
            [main_pointer EXCEPT !.mods = we.modifiers]
      [] OTHER -> main_pointer

\* the calls made by the arm of the match that the window event selects
window_event_effects(we, main_pointer, scale_factor) ==
    CASE we.kind = "CloseRequested" -> <<[call |-> "event_loop.exit"]>>
      [] we.kind = "RedrawRequested" ->
            <<[call |-> "app.paint"], [call |-> "render"]>>
      [] we.kind = "Resized" ->
            <<[call |-> "app.size",
               size |-> Size(we.width \div scale_factor,
                             we.height \div scale_factor)]>>
      [] we.kind = "ModifiersChanged" -> mods(main_pointer)
      [] we.kind = "CursorMoved" -> pointer_move(main_pointer)
      [] we.kind = "CursorLeft" -> pointer_leave
      [] we.kind = "MouseInput" /\ we.state = "Pressed" ->
            pointer_down(main_pointer, we.button)
      [] we.kind = "MouseInput" /\ we.state = "Released" ->
            pointer_up(main_pointer, we.button)
      [] we.kind = "MouseWheel" ->
            pointer_wheel(main_pointer, we.delta, scale_factor)
      [] OTHER -> <<>>

requests_redraw(effects) ==
    \E i \in 1 .. Len(effects) : effects[i] = request_redraw

window_event(we) ==
    LET main_pointer == crushed(shell.main_pointer, we, shell.scale_factor)
        effects == window_event_effects(we, main_pointer, shell.scale_factor)
    IN  /\ ~shell.exited
        /\ we.kind = "RedrawRequested" => shell.counter < MaxFrames
        /\ shell' = [shell EXCEPT
                        !.scale_factor = IF we.kind = "ScaleFactorChanged"
                                         THEN we.scale_factor ELSE @,
                        !.exited = (we.kind = "CloseRequested"),
                        !.counter = IF we.kind = "RedrawRequested" THEN @ + 1 ELSE @,
                        !.redraw_requested =
                            IF we.kind = "RedrawRequested" THEN FALSE
                            ELSE @ \/ requests_redraw(effects),
                        !.main_pointer = main_pointer,
                        !.occurrence = we,
                        !.effects = effects]
        /\ UNCHANGED <<offset, child_size, own_size, update_ctx, overflow_checks, crashed,
                       call, inner_offset, leaf_size>>

\* the calls made by the arm of the match that the AccessKit event selects
user_event_effects(ue) ==
    CASE ue.kind = "InitialTreeRequested" ->
            <<[call |-> "app.paint"], [call |-> "app.accessibility"],
              [call |-> "adapter.update_if_active"]>>
      [] ue.kind = "ActionRequested" ->
            <<dispatch([kind |-> "TargetedAccessibilityAction",
                        target |-> ue.request]),
              [call |-> "app.accessibility"],
              request_redraw>>
      [] OTHER -> <<>>

user_event(ue) ==
    LET effects == user_event_effects(ue)
    IN  /\ ~shell.exited
        /\ shell' = [shell EXCEPT
                        !.accesskit_connected =
                            @ \/ ue.kind = "InitialTreeRequested",
                        !.redraw_requested = @ \/ requests_redraw(effects),
                        !.occurrence = ue,
                        !.effects = effects]
        /\ UNCHANGED <<offset, child_size, own_size, update_ctx, overflow_checks, crashed,
                       call, inner_offset, leaf_size>>

NextShell ==
    \/ \E we \in WindowEvents : window_event(we)
    \/ \E ue \in UserEvents : user_event(ue)

SpecShell == Init /\ [][NextShell]_vars

(***************************************************************************)
(* A ScrollView whose child is a ScrollView: offset, child_size and         *)
(* own_size are the outer container's, inner_offset the inner one's, and   *)
(* leaf_size the size of the inner container's child.  The size the inner  *)
(* container reports is the outer's child_size.                            *)
(***************************************************************************)

nested_layout(bc, ls) ==
    LET cbc == child_bc(bc)
        inner_size == layout_size(ls, cbc)
        inner_max_offset == layout_max_offset(ls, inner_size)
        size == layout_size(inner_size, bc)
        max_offset == layout_max_offset(inner_size, size)
    IN  /\ ~crashed
        /\ leaf_size' = ls
        /\ inner_offset' = layout_offset(inner_offset, inner_max_offset)
        /\ child_size' = inner_size
        /\ offset' = layout_offset(offset, max_offset)
        /\ own_size' = size
        /\ call' = [op |-> "nested_layout",
                    bc |-> bc,
                    size |-> size,
                    offset_before |-> offset,
                    inner_offset_before |-> inner_offset]
        /\ UNCHANGED <<shell, update_ctx, overflow_checks, crashed>>

nested_event(ev, handled_in, leaf_handles) ==
    LET child_event == translate(ev, offset)
        leaf_event == translate(child_event, inner_offset)
        handled_leaf == handled_in \/ leaf_handles
        inner_wheel == scrolls(handled_leaf, child_event)
        inner_panics ==
            inner_wheel /\ overflow_checks /\ neg_overflows(child_event.wheel_delta)
        inner_max_offset == event_max_offset(leaf_size.height, child_size.height)
        inner_new == new_offset(inner_offset, y_delta(child_event.wheel_delta),
                                inner_max_offset)
        inner_changed ==
            inner_wheel /\ ~inner_panics /\ commits(inner_new, inner_offset)
        handled_child == handled_leaf \/ inner_changed
        wheel == ~inner_panics /\ scrolls(handled_child, ev)
        panics == wheel /\ overflow_checks /\ neg_overflows(ev.wheel_delta)
        max_offset == event_max_offset(child_size.height, own_size.height)
        new == new_offset(offset, y_delta(ev.wheel_delta), max_offset)
        changed == wheel /\ ~panics /\ commits(new, offset)
    IN  /\ ~crashed
        /\ inner_offset' = IF inner_changed THEN inner_new ELSE inner_offset
        /\ offset' = IF changed THEN new ELSE offset
        /\ crashed' = (inner_panics \/ panics)
        /\ call' = [op |-> "nested_event",
                    event |-> ev,
                    leaf_event |-> leaf_event,
                    handled_leaf |-> handled_leaf,
                    offset_before |-> offset,
                    inner_offset_before |-> inner_offset,
                    handled |-> (handled_child \/ changed),
                    panicked |-> (inner_panics \/ panics)]
        /\ UNCHANGED <<shell, child_size, own_size, leaf_size, update_ctx, overflow_checks>>

NextNested ==
    \/ \E ev \in Events, handled_in \in BOOLEAN, leaf_handles \in BOOLEAN :
          nested_event(ev, handled_in, leaf_handles)
    \/ \E bc \in Constraints, ls \in ChildSizes : nested_layout(bc, ls)

SpecNested == Init /\ [][NextNested]_vars

(***************************************************************************)
(* CornerRadius::prop_changed                                              *)
(***************************************************************************)

\* a slip: the comparison is inverted
type_is_own(property_type) == property_type = TypeId_of_Self

\* if property_type != TypeId::of::<Self>() { return; }
type_differs(property_type) == property_type # TypeId_of_Self

\* UpdateCtx::request_layout: sets the layout-dirty flag
request_layout(ctx) == [ctx EXCEPT !.needs_layout = TRUE]

prop_changed(property_type) ==
    /\ update_ctx' = IF type_differs(property_type)
                     THEN update_ctx
                     ELSE request_layout(update_ctx)
    /\ call' = [op |-> "prop_changed",
                property_type |-> property_type,
                ctx_before |-> update_ctx,
                layout_requested |-> ~type_differs(property_type)]
    /\ UNCHANGED <<offset, child_size, own_size, overflow_checks, crashed,
                   shell, inner_offset, leaf_size>>

\* the notification can arrive whatever requests are already pending
InitProperties ==
    /\ update_ctx \in UpdateCtxs
    /\ offset = 0
    /\ child_size = Size(0, 0)
    /\ own_size = Size(0, 0)
    /\ overflow_checks \in BOOLEAN
    /\ crashed = FALSE
    /\ call = [op |-> "new"]
    /\ shell = new_shell
    /\ inner_offset = 0
    /\ leaf_size = Size(0, 0)

NextProperties == \E t \in TypeIds : prop_changed(t)

SpecProperties == InitProperties /\ [][NextProperties]_vars

(***************************************************************************)
(* Properties                                                              *)
(***************************************************************************)

IsWheel == call.op = "event" /\ call.event.kind = "MouseWheel"

\* the wheel event reached the container's own scroll handling
UnhandledWheel == IsWheel /\ ~call.handled_child

MaxOffset == max(0, child_size.height - own_size.height)

\* C1: in every reachable state, 0 <= offset <= max(0, child_height -
\* own_height), with the child's and the container's height of the most
\* recent layout.
C1_OffsetInRange == 0 <= offset /\ offset <= MaxOffset

\* a layout in which the child shrank and the offset was re-clamped
C1_Witness ==
    /\ call.op = "layout"
    /\ call.offset_before > offset
    /\ offset = MaxOffset

\* the wheel delta as the claim states it
ClaimedDelta(wheel_delta) ==
    IF wheel_delta.tag = "Precise" THEN -wheel_delta.y ELSE -wheel_delta.y * 53

\* C2: a wheel event the child left unhandled sets offset to
\* clamp(offset + y_delta, 0, max_offset), y_delta being the negated precise
\* y, or the negated line count times 53.
C2_WheelSetsClampedOffset ==
    (UnhandledWheel /\ call.event.wheel_delta.tag \in {"Precise", "Lines"})
        => offset = clamp(call.offset_before + ClaimedDelta(call.event.wheel_delta),
                          0, MaxOffset)

\* C3: for a wheel event the child left unhandled, the container marks the
\* event handled and requests a repaint if and only if the offset changed.
C3_HandledIffChanged ==
    UnhandledWheel =>
        /\ call.handled <=> (offset # call.offset_before)
        /\ call.paint_requested <=> (offset # call.offset_before)

\* a scroll-up wheel event at offset 0 over scrollable content: left unhandled
C3_Witness ==
    /\ UnhandledWheel
    /\ call.event.wheel_delta = [tag |-> "Precise", x |-> 0, y |-> 120]
    /\ MaxOffset > 0
    /\ call.offset_before = 0
    /\ ~call.handled
    /\ ~call.paint_requested

\* C4: if the handled flag is set when the child's event call returns, the
\* container leaves offset unchanged.
C4_HandledSuppressesScroll ==
    (call.op = "event" /\ call.handled_child) => offset = call.offset_before

\* a wheel event consumed by the child that would otherwise have scrolled
C4_Witness ==
    /\ IsWheel
    /\ call.handled_child
    /\ ~call.handled_in
    /\ call.event.wheel_delta = [tag |-> "Lines", x |-> 0, y |-> -1]
    /\ call.offset_before + 53 <= MaxOffset

\* C5: a MouseDown, MouseUp, MouseMove or MouseWheel event at (x, y) is
\* delivered to the child at (x, y + offset), same variant and payload, and
\* the event received from the parent is not modified.
C5_PositionTranslated ==
    (call.op = "event" /\ call.event.kind \in MouseKinds) =>
        /\ call.child_event.kind = call.event.kind
        /\ call.child_event.pos.x = call.event.pos.x
        /\ call.child_event.pos.y = call.event.pos.y + call.offset_before
        /\ call.child_event.button = call.event.button
        /\ call.child_event.wheel_delta = call.event.wheel_delta
        /\ call.child_calls = 1
        /\ call.event_after = call.event

\* a MouseDown at (10, 40) with offset 15 arrives at (10, 55)
C5_Witness ==
    /\ call.op = "event"
    /\ call.event.kind = "MouseDown"
    /\ call.event.pos = Point(10, 40)
    /\ call.offset_before = 15
    /\ call.child_event.pos = Point(10, 55)

\* the state of the scenario: container height 200, child height 500, offset 0
ScenarioStart ==
    /\ own_size.height = 200
    /\ child_size.height = 500
    /\ offset = 0

ScenarioDelta == [tag |-> "Precise", x |-> 0, y |-> -120]

\* the state right after the scenario's wheel event
ScenarioScrolled ==
    /\ UnhandledWheel
    /\ call.event.wheel_delta = ScenarioDelta
    /\ call.offset_before = 0
    /\ own_size.height = 200
    /\ child_size.height = 500

\* C6: with container height 200, child height 500 and offset 0, an unhandled
\* wheel event with precise delta y = -120 moves the offset to 120 and marks
\* the event handled; a layout that follows with child height 150 forces the
\* offset to 0.
C6_EndToEnd ==
    /\ [][(/\ ScenarioStart
           /\ call'.op = "event"
           /\ call'.event.kind = "MouseWheel"
           /\ call'.event.wheel_delta = ScenarioDelta
           /\ ~call'.handled_child)
          => (offset' = 120 /\ call'.handled)]_vars
    /\ [][(/\ ScenarioScrolled
           /\ call'.op = "layout"
           /\ call'.child_size.height = 150)
          => offset' = 0]_vars

\* the end of the scenario: the layout with child height 150 found offset 120
C6_Witness ==
    /\ call.op = "layout"
    /\ call.child_size.height = 150
    /\ call.offset_before = 120
    /\ offset = 0

\* C7: two layouts in a row with identical constraints and the same child
\* size report the same size, and the second leaves the offset as the first
\* left it.
C7_LayoutIdempotent ==
    [][(/\ call.op = "layout"
        /\ call'.op = "layout"
        /\ call'.bc = call.bc
        /\ call'.child_size = call.child_size)
       => (call'.size = call.size /\ offset' = offset)]_vars

\* a repeated layout over scrolled content
C7_Witness ==
    /\ call.op = "layout"
    /\ call.repeated
    /\ offset > 0
    /\ offset = call.offset_before

\* C8 as stated: the size returned by layout satisfies min <= size <= max
\* componentwise.
C8_SizeWithinConstraints ==
    call.op = "layout" =>
        /\ call.bc.min.width <= call.size.width
        /\ call.size.width <= call.bc.max.width
        /\ call.bc.min.height <= call.size.height
        /\ call.size.height <= call.bc.max.height

\* C8 as amended: the size returned by layout satisfies size <= max
\* componentwise, and min <= size on every axis on which the child's size is
\* at least the minimum.
C8_SizeWithinMax ==
    call.op = "layout" =>
        /\ call.size.width <= call.bc.max.width
        /\ call.size.height <= call.bc.max.height
        /\ call.child_size.width >= call.bc.min.width
              => call.size.width >= call.bc.min.width
        /\ call.child_size.height >= call.bc.min.height
              => call.size.height >= call.bc.min.height

\* a child taller than the maximum and narrower than the minimum
C8_Witness ==
    /\ call.op = "layout"
    /\ call.child_size.height > call.bc.max.height
    /\ call.child_size.width < call.bc.min.width
    /\ call.size.height = call.bc.max.height
    /\ call.size.width < call.bc.min.width

\* C9: the reported size is (min(child_width, max_width), min(child_height,
\* max_height)): each component is capped at the maximum on its own and never
\* raised to the minimum.
C9_SizeIsChildCappedAtMax ==
    call.op = "layout" =>
        /\ call.size.width = IF call.child_size.width <= call.bc.max.width
                             THEN call.child_size.width
                             ELSE call.bc.max.width
        /\ call.size.height = IF call.child_size.height <= call.bc.max.height
                              THEN call.child_size.height
                              ELSE call.bc.max.height

\* a child wider than the maximum and shorter than the minimum: the width is
\* capped, the height is the child's own
C9_Witness ==
    /\ call.op = "layout"
    /\ call.child_size.width > call.bc.max.width
    /\ call.child_size.height < call.bc.min.height
    /\ call.size = Size(call.bc.max.width, call.child_size.height)

ContainerNodes(nodes) ==
    {i \in 1 .. Len(nodes) : nodes[i].role = "GenericContainer"}

\* C10: accessibility delegates to the child once, then pushes exactly one
\* GenericContainer node with children [child id] if and only if the
\* container is requested; not requested, the nodes are exactly the child's;
\* requested, the container's node comes after the child's.
C10_AccessibilityNodes ==
    call.op = "accessibility" =>
        /\ call.child_calls = 1
        /\ SubSeq(call.nodes, 1, Len(call.child_nodes)) = call.child_nodes
        /\ ~call.is_requested => call.nodes = call.child_nodes
        /\ call.is_requested =>
              /\ Len(call.nodes) = Len(call.child_nodes) + 1
              /\ call.nodes[Len(call.nodes)].role = "GenericContainer"
              /\ call.nodes[Len(call.nodes)].children = <<CHILD_ID>>
        /\ Cardinality(ContainerNodes(call.nodes)) = IF call.is_requested THEN 1 ELSE 0

\* the container is requested and the child's subtree pushed two nodes
C10_Witness ==
    /\ call.op = "accessibility"
    /\ call.is_requested
    /\ Len(call.child_nodes) = 2
    /\ Len(call.nodes) = 3

\* C11: compute_max_intrinsic returns 0 without querying the child when the
\* minimum on the queried axis is negative; otherwise it queries the child
\* once on the same axis and returns the child's length clamped into
\* [min, max] of that axis, which lies in [min, max] when 0 <= min <= max.
C11_IntrinsicClamped ==
    call.op = "compute_max_intrinsic" =>
        LET mn == IF call.axis = "Horizontal"
                  THEN call.bc.min.width ELSE call.bc.min.height
            mx == IF call.axis = "Horizontal"
                  THEN call.bc.max.width ELSE call.bc.max.height
        IN  IF mn < 0
            THEN call.result = 0 /\ call.child_queries = <<>>
            ELSE /\ Len(call.child_queries) = 1
                 /\ call.child_queries[1].axis = call.axis
                 /\ (0 <= mn /\ mn <= mx) =>
                       /\ mn <= call.result
                       /\ call.result <= mx
                       /\ call.result =
                             IF call.child_queries[1].length < mn THEN mn
                             ELSE IF call.child_queries[1].length > mx THEN mx
                             ELSE call.child_queries[1].length

\* a vertical query with a negative minimum height and a valid minimum width
C11_Witness ==
    /\ call.op = "compute_max_intrinsic"
    /\ call.axis = "Vertical"
    /\ call.bc.min.height < 0
    /\ call.bc.min.width >= 0
    /\ call.result = 0
    /\ call.child_calls = 0

\* C12: after any layout in which the child's height is at most the reported
\* own height (a zero-height child, a maximum height of 0 with a zero-height
\* child, ...) offset is 0 whatever it was before, and while that geometry
\* holds no event makes the offset non-zero.
C12_DegenerateGeometry ==
    /\ (call.op = "layout" /\ call.child_size.height <= call.size.height)
          => offset = 0
    /\ (call.op = "event" /\ child_size.height <= own_size.height)
          => (offset = 0 /\ call.offset_before = 0)

\* a zero-height child under a maximum height of 0, laid out while scrolled
C12_Witness ==
    /\ call.op = "layout"
    /\ call.bc.max.height = 0
    /\ call.child_size.height = 0
    /\ call.size.height = 0
    /\ call.offset_before > 0
    /\ offset = 0

\* an unhandled scroll-down wheel event over content that fits
C12_WheelWitness ==
    /\ UnhandledWheel
    /\ call.event.wheel_delta = [tag |-> "Precise", x |-> 0, y |-> -120]
    /\ child_size.height = 150
    /\ own_size.height = 150
    /\ offset = 0

RECURSIVE LayerDepth(_)
\* the number of layers open at the end of a scene
LayerDepth(scene) ==
    IF scene = <<>> THEN 0
    ELSE LET last == scene[Len(scene)]
             rest == SubSeq(scene, 1, Len(scene) - 1)
         IN  LayerDepth(rest) + (IF last.op = "push_layer" THEN 1
                                 ELSE IF last.op = "pop_layer" THEN -1
                                 ELSE 0)

\* C13: paint appends to the scene, in this order, one push of a clip layer
\* with the rectangle of the container's own size, the child's sub-scene
\* translated by (0, -offset), and one pop; the layer depth after paint is
\* the depth before.
C13_PaintClipsAndTranslates ==
    call.op = "paint" =>
        LET n == Len(call.scene_before)
        IN  /\ Len(call.scene) = n + 3
            /\ SubSeq(call.scene, 1, n) = call.scene_before
            /\ call.scene[n + 1].op = "push_layer"
            /\ call.scene[n + 1].clip.x0 = 0
            /\ call.scene[n + 1].clip.y0 = 0
            /\ call.scene[n + 1].clip.x1 = own_size.width
            /\ call.scene[n + 1].clip.y1 = own_size.height
            /\ call.scene[n + 2].op = "append"
            /\ call.scene[n + 2].fragment = call.fragment
            /\ call.scene[n + 2].translate.x = 0
            /\ call.scene[n + 2].translate.y + offset = 0
            /\ call.scene[n + 3].op = "pop_layer"
            /\ LayerDepth(call.scene) = LayerDepth(call.scene_before)
            /\ call.child_calls = 1

\* a paint of scrolled content taller than the container, inside a layer
C13_Witness ==
    /\ call.op = "paint"
    /\ offset > 0
    /\ child_size.height > own_size.height
    /\ LayerDepth(call.scene_before) = 1
    /\ call.fragment = "rows"

\* the widget events dispatched into the app by the last callback
Dispatched ==
    SelectSeq(shell.effects, LAMBDA e : e.call = "app.window_event")

\* the Event variant that corresponds to a pointer occurrence
Corresponding(we) ==
    CASE we.kind = "CursorMoved" -> "MouseMove"
      [] we.kind = "CursorLeft" -> "MouseLeft"
      [] we.kind = "MouseInput" /\ we.state = "Pressed" -> "MouseDown"
      [] we.kind = "MouseInput" /\ we.state = "Released" -> "MouseUp"
      [] we.kind = "MouseWheel" -> "MouseWheel"

PointerOccurrences == {"CursorMoved", "CursorLeft", "MouseInput", "MouseWheel"}

OtherWindowOccurrences ==
    {"Resized", "ModifiersChanged", "CloseRequested", "RedrawRequested",
     "ScaleFactorChanged"}

\* C14: for each pointer occurrence (cursor moved or left, button pressed or
\* released, wheel) exactly one widget Event of the corresponding variant is
\* dispatched into the app and then a redraw is requested; window events of
\* any other kind dispatch no widget Event.
C14_OneDispatchPerPointerOccurrence ==
    /\ shell.occurrence.kind \in PointerOccurrences =>
          /\ Len(shell.effects) = 2
          /\ shell.effects[1].call = "app.window_event"
          /\ shell.effects[1].event.kind = Corresponding(shell.occurrence)
          /\ shell.effects[2].call = "window.request_redraw"
          /\ shell.redraw_requested
    /\ shell.occurrence.kind \in OtherWindowOccurrences => Dispatched = <<>>

\* the cursor left the window: one MouseLeft, then the redraw request
C14_Witness ==
    /\ shell.occurrence.kind = "CursorLeft"
    /\ Len(Dispatched) = 1
    /\ Dispatched[1].event.kind = "MouseLeft"
    /\ shell.redraw_requested

\* a wheel event on the nested containers that the leaf left unhandled
NestedUnhandledWheel ==
    /\ call.op = "nested_event"
    /\ call.event.kind = "MouseWheel"
    /\ ~call.handled_leaf

\* the wheel moves the content down (offset grows) when -y > 0, up when -y < 0
CanMove(off, max_offset, wheel_delta) ==
    \/ -wheel_delta.y > 0 /\ off < max_offset
    \/ -wheel_delta.y < 0 /\ off > 0

InnerCanMove ==
    CanMove(call.inner_offset_before,
            max(0, leaf_size.height - child_size.height),
            call.event.wheel_delta)

OuterCanMove ==
    CanMove(call.offset_before,
            max(0, child_size.height - own_size.height),
            call.event.wheel_delta)

InnerChanged == inner_offset # call.inner_offset_before

OuterChanged == offset # call.offset_before

\* C15: for a wheel event that the leaf of two nested ScrollViews leaves
\* unhandled: if the inner offset can move in the wheel's direction only the
\* inner offset changes; if the inner is at its limit and the outer is not,
\* only the outer offset changes; at most one offset changes, and the event
\* ends handled exactly when one did.
C15_NestedEscalation ==
    NestedUnhandledWheel =>
        /\ InnerCanMove => (InnerChanged /\ ~OuterChanged)
        /\ (~InnerCanMove /\ OuterCanMove) => (OuterChanged /\ ~InnerChanged)
        /\ ~(InnerChanged /\ OuterChanged)
        /\ call.handled <=> (InnerChanged \/ OuterChanged)

\* C16: layout changes offset only when the offset is strictly greater than
\* the new max_offset = max(0, child_height - reported_height), and then
\* sets it to that max_offset; it never increases the offset.
C16_LayoutOnlyLowersOffset ==
    call.op = "layout" =>
        LET max_offset == max(0, call.child_size.height - call.size.height)
        IN  /\ call.offset_before > max_offset => offset = max_offset
            /\ call.offset_before <= max_offset => offset = call.offset_before
            /\ offset <= call.offset_before

\* a layout over scrolled content that leaves room below: offset is kept
C16_Witness ==
    /\ call.op = "layout"
    /\ call.offset_before > 0
    /\ offset = call.offset_before
    /\ offset < max(0, call.child_size.height - call.size.height)

\* the calls that are not a layout and not a wheel event
PassesThrough(c) ==
    \/ c.op \in {"lifecycle", "update", "compute_max_intrinsic",
                 "accessibility", "paint"}
    \/ c.op = "event" /\ c.event.kind # "MouseWheel"

\* what the container itself did in the last call, besides calling the child
OwnEffects ==
    CASE call.op = "accessibility" ->
            SubSeq(call.nodes, Len(call.child_nodes) + 1, Len(call.nodes))
      [] call.op = "paint" ->
            SelectSeq(SubSeq(call.scene, Len(call.scene_before) + 1, Len(call.scene)),
                      LAMBDA o : o.op # "append")
      [] OTHER -> <<>>

\* C17 as stated: lifecycle, update, compute_max_intrinsic, accessibility,
\* paint and the events other than MouseWheel leave offset unchanged and do
\* nothing beyond calling the corresponding operation on the child.
C17_NothingBeyondTheChild ==
    PassesThrough(call) =>
        /\ offset = call.offset_before
        /\ OwnEffects = <<>>

\* C17 as amended: lifecycle, update, compute_max_intrinsic, accessibility,
\* paint and the events other than MouseWheel leave the offset (and the
\* cached sizes) unchanged; lifecycle, update and those events call the
\* child once and neither request a repaint nor mark the event handled.
C17_OnlyLayoutAndWheelMoveOffset ==
    /\ [][PassesThrough(call') =>
             /\ offset' = offset
             /\ call'.offset_before = offset
             /\ child_size' = child_size
             /\ own_size' = own_size]_vars
    /\ [](call.op \in {"lifecycle", "update", "event"} /\ PassesThrough(call) =>
             /\ call.child_calls = 1
             /\ ~call.paint_requested
             /\ call.op = "lifecycle" => call.child_event = call.event
             /\ call.op = "event" => call.handled = call.handled_child)

\* an unhandled button press that carries a wheel delta, over content that
\* could scroll further: the offset stays
C17_Witness ==
    /\ call.op = "event"
    /\ call.event.kind = "MouseDown"
    /\ call.event.wheel_delta.tag = "Precise"
    /\ ~call.handled_child
    /\ offset > 0
    /\ offset < MaxOffset

\* C18: layout lays out the child exactly once, with min = (0, 0) and
\* max = (incoming max width, +infinity), whatever the incoming minimum and
\* the incoming maximum height.
C18_ChildConstraints ==
    call.op = "layout" =>
        /\ call.child_calls = 1
        /\ call.cbc.min.width = 0
        /\ call.cbc.min.height = 0
        /\ call.cbc.max.width = call.bc.max.width
        /\ call.cbc.max.height = INFINITY

\* a layout under a non-zero minimum and a finite maximum height
C18_Witness ==
    /\ call.op = "layout"
    /\ call.bc.min.width > 0
    /\ call.bc.min.height > 0
    /\ call.bc.max.height < INFINITY
    /\ call.cbc.max.height = INFINITY

\* C19: every call of layout requests a repaint, whether or not the reported
\* size or the offset changed.
C19_LayoutRequestsPaint == call.op = "layout" => call.paint_requested

\* a repeated layout that changed neither the size nor the offset
C19_Witness ==
    /\ call.op = "layout"
    /\ call.repeated
    /\ call.offset_before = offset
    /\ call.size = own_size
    /\ call.paint_requested

\* C20: MouseLeft and TargetedAccessibilityAction (the action the shell
\* injects on an accessibility action request included) are delivered to the
\* child identical to what the container received, whatever the offset.
C20_OtherEventsUnchanged ==
    (call.op = "event" /\ call.event.kind \notin MouseKinds) =>
        /\ call.child_event = call.event
        /\ call.child_calls = 1

\* an accessibility action delivered while the content is scrolled
C20_Witness ==
    /\ call.op = "event"
    /\ call.event.kind = "TargetedAccessibilityAction"
    /\ call.offset_before > 0
    /\ call.child_event.target = call.event.target

\* C22: event forwards each incoming event to the child exactly once, before
\* it decides whether to scroll: the position the child sees is translated by
\* the offset as it was before the event, never by the offset that the same
\* wheel event produced.
C22_ChildSeesOffsetBefore ==
    call.op = "event" =>
        /\ call.child_calls = 1
        /\ call.event.kind \in MouseKinds =>
              /\ call.child_event.pos = Point(call.event.pos.x,
                                              call.event.pos.y + call.offset_before)
              /\ offset # call.offset_before =>
                    call.child_event.pos.y # call.event.pos.y + offset

\* a wheel event that moved already scrolled content
C22_Witness ==
    /\ UnhandledWheel
    /\ call.offset_before > 0
    /\ offset # call.offset_before
    /\ call.child_event.pos.y = call.event.pos.y + call.offset_before

\* the wheel event carries no delta, or a delta whose y is zero
ZeroWheel == IsWheel /\ call.event.wheel_delta.y = 0

\* C23: a MouseWheel event without a delta or with a zero y delta, arriving
\* with 0 <= offset <= max_offset, leaves offset unchanged, leaves the handled
\* flag as the child left it, and requests no repaint.
C23_ZeroWheelIsInert ==
    (ZeroWheel /\ 0 <= call.offset_before /\ call.offset_before <= MaxOffset) =>
        /\ offset = call.offset_before
        /\ call.handled = call.handled_child
        /\ ~call.paint_requested
        /\ ~call.panicked

\* an unhandled wheel event without a delta over content scrolled part-way
C23_Witness ==
    /\ ZeroWheel
    /\ call.event.wheel_delta.tag = "None"
    /\ ~call.handled_child
    /\ call.offset_before > 0
    /\ call.offset_before < MaxOffset
    /\ ~call.handled

\* an unhandled sideways wheel event over content scrolled part-way
C23_SidewaysWitness ==
    /\ ZeroWheel
    /\ call.event.wheel_delta.tag = "Precise"
    /\ call.event.wheel_delta.x # 0
    /\ ~call.handled_child
    /\ call.offset_before > 0
    /\ call.offset_before < MaxOffset

\* C21: CornerRadius::prop_changed requests layout if and only if the changed
\* property's type is CornerRadius; for any other property type it returns
\* without requesting layout or changing anything else.
C21_LayoutRequestedIffOwnType ==
    call.op = "prop_changed" =>
        LET own == call.property_type = TypeId_of_Self
        IN  /\ call.layout_requested <=> own
            /\ own => update_ctx = [call.ctx_before EXCEPT !.needs_layout = TRUE]
            /\ ~own => update_ctx = call.ctx_before

\* the corner radius changed while no layout was pending
C21_Witness ==
    /\ call.op = "prop_changed"
    /\ call.property_type = TypeId_of_Self
    /\ ~call.ctx_before.needs_layout
    /\ update_ctx.needs_layout

\* another property changed while no layout was pending: none is requested
C21_OtherTypeWitness ==
    /\ call.op = "prop_changed"
    /\ call.property_type # TypeId_of_Self
    /\ ~call.ctx_before.needs_layout
    /\ ~update_ctx.needs_layout

====
